---------------------------- MODULE Spec2Model ----------------------------
(***************************************************************************)
(* A model of the MoDL / SSDU reconstruction network (proj_models/modl.py) *)
(* and of the factory and checkpoint layer around it (get_instances.py).   *)
(*                                                                         *)
(* Numbers.  A torch scalar is modelled as an exact rational <<n, d>> in   *)
(* lowest terms with d > 0; the three values with d = 0 are the floating   *)
(* point specials: <<1,0>> = +inf, <<-1,0>> = -inf, <<0,0>> = NaN.         *)
(* Rounding is not modelled.  A complex scalar is a pair <<re, im>>.       *)
(*                                                                         *)
(* Units.  Image and k-space values are stored in units of 1e-5, so a      *)
(* squared norm is in units of 1e-10 and the CG threshold 1e-10 of         *)
(* modl.py:66 is the number 1.  csm, mask, lam, alpha and beta are pure    *)
(* numbers.                                                                *)
(*                                                                         *)
(* Tensors.  The spatial grid is 2 x 2 (its unitary DFT has the rational   *)
(* entries +-1/2); a pixel (r, c) is the index 2r + c + 1 of a 4-tuple.    *)
(*   complex image  (B, nrow, ncol)        : Seq(4-tuple of complex)       *)
(*   channel pair   (B, 2, nrow, ncol)     : Seq(<<re 4-tuple, im 4-tuple>>)*)
(*   csm            (B, ncoil, nrow, ncol) : Seq(Seq(4-tuple of complex))  *)
(*   mask           (B, nrow, ncol)        : Seq(4-tuple of 0/1)           *)
(*   k-space        (B, ncoil, nrow, ncol) : Seq(Seq(4-tuple of complex))  *)
(***************************************************************************)
EXTENDS Integers, Sequences, FiniteSets, TLC

(***************************************************************************)
(* Scalars                                                                 *)
(***************************************************************************)
Abs(n) == IF n < 0 THEN -n ELSE n

Sgn(n) == IF n > 0 THEN 1 ELSE IF n < 0 THEN -1 ELSE 0

RECURSIVE GCD(_, _)
GCD(a, b) == IF b = 0 THEN a ELSE GCD(b, a % b)

\* n/d in lowest terms; d = 0 gives inf, -inf or NaN by the sign of n
Rat(n, d) ==
    IF d = 0 THEN <<Sgn(n), 0>>
    ELSE LET g == GCD(Abs(n), Abs(d))
             s == IF d < 0 THEN -1 ELSE 1
         IN  <<(s * n) \div g, (s * d) \div g>>

RZero == <<0, 1>>
ROne == <<1, 1>>
RNaN == <<0, 0>>

RIsFinite(a) == a[2] # 0

RAdd(a, b) ==
    IF a[2] = 0 /\ b[2] = 0 THEN (IF a[1] = b[1] THEN a ELSE RNaN)
    ELSE IF a[2] = 0 THEN a
    ELSE IF b[2] = 0 THEN b
    ELSE LET g == GCD(a[2], b[2])
         IN  Rat(a[1] * (b[2] \div g) + b[1] * (a[2] \div g),
                 (a[2] \div g) * b[2])

RNeg(a) == <<-a[1], a[2]>>

RSub(a, b) == RAdd(a, RNeg(b))

\* inf * 0 = NaN, inf * x = +-inf, NaN * x = NaN
RMul(a, b) ==
    IF a[2] = 0 \/ b[2] = 0 THEN <<Sgn(a[1]) * Sgn(b[1]), 0>>
    ELSE LET g1 == GCD(Abs(a[1]), b[2])
             g2 == GCD(Abs(b[1]), a[2])
         IN  Rat((a[1] \div g1) * (b[1] \div g2),
                 (a[2] \div g2) * (b[2] \div g1))

\* x / 0 = +-inf, 0 / 0 = NaN, x / inf = 0 (the sign of a zero is not kept)
RInv(a) ==
    IF a[2] = 0 THEN (IF a[1] = 0 THEN RNaN ELSE RZero)
    ELSE IF a[1] = 0 THEN <<1, 0>>
    ELSE Rat(a[2], a[1])

RDiv(a, b) == RMul(a, RInv(b))

\* a > b as torch compares: False when either side is NaN
RGt(a, b) ==
    IF (a[2] = 0 /\ a[1] = 0) \/ (b[2] = 0 /\ b[1] = 0) THEN FALSE
    ELSE IF a[2] = 0 THEN a[1] > 0 /\ a # b
    ELSE IF b[2] = 0 THEN b[1] < 0
    ELSE a[1] * b[2] > b[1] * a[2]

RGe(a, b) ==
    IF (a[2] = 0 /\ a[1] = 0) \/ (b[2] = 0 /\ b[1] = 0) THEN FALSE
    ELSE a = b \/ RGt(a, b)

CZero == <<RZero, RZero>>

CAdd(a, b) == <<RAdd(a[1], b[1]), RAdd(a[2], b[2])>>

CSub(a, b) == <<RSub(a[1], b[1]), RSub(a[2], b[2])>>

CMul(a, b) ==
    <<RSub(RMul(a[1], b[1]), RMul(a[2], b[2])),
      RAdd(RMul(a[1], b[2]), RMul(a[2], b[1]))>>

CConj(a) == <<a[1], RNeg(a[2])>>

\* a real scalar times a complex one
CScale(s, a) == <<RMul(s, a[1]), RMul(s, a[2])>>

CIsFinite(a) == RIsFinite(a[1]) /\ RIsFinite(a[2])

(***************************************************************************)
(* The 2 x 2 grid and tensors over it                                      *)
(***************************************************************************)
Rows == {0, 1}

Cols == {0, 1}

NPix == Cardinality(Rows) * Cardinality(Cols)

Pix == 1 .. NPix

\* the tuple <<f[1], ..., f[n]>>: a tensor axis of length n, entry by entry
RECURSIVE Tup(_, _)
Tup(f, n) == IF n = 0 THEN <<>> ELSE Append(Tup(f, n - 1), f[n])

RowOf(q) == (q - 1) \div Cardinality(Cols)

ColOf(q) == (q - 1) % Cardinality(Cols)

RECURSIVE RSumTo(_, _)
RSumTo(f, n) == IF n = 0 THEN RZero ELSE RAdd(RSumTo(f, n - 1), f[n])

RECURSIVE CSumTo(_, _)
CSumTo(f, n) == IF n = 0 THEN CZero ELSE CAdd(CSumTo(f, n - 1), f[n])

\* torch.sum of a sequence of reals / of complex numbers
RSum(f) == RSumTo(f, Len(f))

CSum(f) == CSumTo(f, Len(f))

ImgZero == Tup([q \in Pix |-> CZero], NPix)

ImgAdd(a, b) == Tup([q \in Pix |-> CAdd(a[q], b[q])], NPix)

ImgSub(a, b) == Tup([q \in Pix |-> CSub(a[q], b[q])], NPix)

ImgMul(a, b) == Tup([q \in Pix |-> CMul(a[q], b[q])], NPix)

ImgConj(a) == Tup([q \in Pix |-> CConj(a[q])], NPix)

ImgScale(s, a) == Tup([q \in Pix |-> CScale(s, a[q])], NPix)

\* elementwise operations on complex image tensors of one batch size
TAdd(x, y) == Tup([b \in 1 .. Len(x) |-> ImgAdd(x[b], y[b])], Len(x))

TSub(x, y) == Tup([b \in 1 .. Len(x) |-> ImgSub(x[b], y[b])], Len(x))

TScale(s, x) == Tup([b \in 1 .. Len(x) |-> ImgScale(s, x[b])], Len(x))

TZerosLike(x) == Tup([b \in 1 .. Len(x) |-> ImgZero], Len(x))

TIsFinite(x) == \A b \in 1 .. Len(x) : \A q \in Pix : CIsFinite(x[b][q])

\* torch.sum(a.conj() * b).real over the whole tensor, batch included
TDotRe(a, b) ==
    RSum(Tup([n \in 1 .. Len(a) |->
            (CSum(Tup([q \in Pix |-> CMul(CConj(a[n][q]), b[n][q])],
                      NPix)))[1]], Len(a)))

(***************************************************************************)
(* utils.r2c / utils.c2r and the Fourier transform                         *)
(***************************************************************************)
\* r2c(x, axis=1): (B, 2, nrow, ncol) real -> (B, nrow, ncol) complex
r2c(x) ==
    Tup([b \in 1 .. Len(x) |->
            Tup([q \in Pix |-> <<x[b][1][q], x[b][2][q]>>], NPix)], Len(x))

\* c2r(x, axis=1): (B, nrow, ncol) complex -> (B, 2, nrow, ncol) real
c2r(x) ==
    Tup([b \in 1 .. Len(x) |->
            <<Tup([q \in Pix |-> x[b][q][1]], NPix),
              Tup([q \in Pix |-> x[b][q][2]], NPix)>>], Len(x))

\* c2r(x, axis=1) of a (B, ncoil, nrow, ncol) complex tensor:
\* (B, 2, ncoil, nrow, ncol) real
c2r_coils(x) ==
    Tup([b \in 1 .. Len(x) |->
            <<Tup([c \in 1 .. Len(x[b]) |->
                      Tup([q \in Pix |-> x[b][c][q][1]], NPix)], Len(x[b])),
              Tup([c \in 1 .. Len(x[b]) |->
                      Tup([q \in Pix |-> x[b][c][q][2]], NPix)], Len(x[b]))>>],
        Len(x))

\* the twiddle factor exp(-2 pi i (u r / 2 + v c / 2)) of the 2 x 2 DFT
Twiddle(q, p) ==
    IF (RowOf(q) * RowOf(p) + ColOf(q) * ColOf(p)) % 2 = 0 THEN ROne
    ELSE RNeg(ROne)

\* 1 / sqrt(nrow * ncol): the unitary normalisation on the 2 x 2 grid
OrthoNorm == Rat(1, 2)

\* unitary 2D DFT of one image over axes (-2, -1)
fft_torch(img) ==
    Tup([q \in Pix |->
            CScale(OrthoNorm,
                   CSum(Tup([p \in Pix |-> CScale(Twiddle(q, p), img[p])],
                            NPix)))], NPix)

\* unitary inverse 2D DFT of one image: the conjugate twiddles
ifft_torch(ksp) ==
    Tup([p \in Pix |->
            CScale(OrthoNorm,
                   CSum(Tup([q \in Pix |-> CScale(Twiddle(q, p), ksp[q])],
                            NPix)))], NPix)

\* a mask entry (int8 0/1) times a complex image, elementwise
MaskMul(m, img) == Tup([q \in Pix |-> CScale(<<m[q], 1>>, img[q])], NPix)

(***************************************************************************)
(* mri.SenseOp                                                             *)
(***************************************************************************)
\* image, csm and mask of one batch size
SenseOp_shapes_ok(csm, mask, im) == Len(im) = Len(csm) /\ Len(csm) = Len(mask)

\* fwd: coil weighting, unitary DFT, sampling
SenseOp_fwd(csm, mask, im) ==
    Tup([b \in 1 .. Len(im) |->
        Tup([c \in 1 .. Len(csm[b]) |->
                    MaskMul(mask[b], fft_torch(ImgMul(csm[b][c], im[b])))],
                Len(csm[b]))], Len(im))

\* adj: inverse DFT, conjugate coil weighting, sum over the coils
SenseOp_adj(csm, mask, ksp) ==
    Tup([b \in 1 .. Len(ksp) |->
        Tup([q \in Pix |->
            CSum(Tup([c \in 1 .. Len(csm[b]) |->
                                 CMul(CConj(csm[b][c][q]),
                                      ifft_torch(ksp[b][c])[q])],
                             Len(csm[b])))], NPix)], Len(ksp))

(***************************************************************************)
(* myAtA, myCG, data_consistency                                           *)
(***************************************************************************)
\* myAtA(csm, mask, lam)
myAtA(csm, mask, lam) ==
    [kind |-> "myAtA", csm |-> csm, mask |-> mask, lam |-> lam]

\* another callable handed to myCG: the second-difference operator
\* (2, -1 off the diagonal) along the flattened tensor, Hermitian and
\* positive definite with as many distinct eigenvalues as entries
LaplaceOp == [kind |-> "laplace", csm |-> <<>>, mask |-> <<>>, lam |-> RZero]

\* entry j of a tensor flattened in row-major order
FlatAt(p, j) ==
    p[((j - 1) \div NPix) + 1][((j - 1) % NPix) + 1]

Laplace_forward(p) ==
    Tup([b \in 1 .. Len(p) |->
        Tup([q \in Pix |->
            LET j == NPix * (b - 1) + q
                n == NPix * Len(p)
                lo == IF j > 1 THEN FlatAt(p, j - 1) ELSE CZero
                hi == IF j < n THEN FlatAt(p, j + 1) ELSE CZero
            IN  CSub(CSub(CAdd(p[b][q], p[b][q]), lo), hi)], NPix)], Len(p))

\* myAtA.forward: A^H(A(im)) + lam * im
myAtA_forward(AtA, im) ==
    LET im_u == SenseOp_adj(AtA.csm, AtA.mask,
                            SenseOp_fwd(AtA.csm, AtA.mask, im))
    IN  TAdd(im_u, TScale(AtA.lam, im))

\* whether the call AtA(p) raises instead of returning
AtA_raises(AtA, p) ==
    AtA.kind = "myAtA" /\ ~SenseOp_shapes_ok(AtA.csm, AtA.mask, p)

\* the call AtA(p)
AtA_call(AtA, p) ==
    IF AtA.kind = "myAtA" THEN myAtA_forward(AtA, p)
    ELSE Laplace_forward(p)

\* the iteration cap of the while loop
CGMaxIter == 10

\* the threshold 1e-10 on rTr, in units of 1e-10
CGTol == ROne

\* myCG before its loop
myCG_init(rhs_r) ==
    LET rhs == r2c(rhs_r)
    IN  [i |-> 0, x |-> TZerosLike(rhs), r |-> rhs, p |-> rhs,
         rTr |-> TDotRe(rhs, rhs), rhs |-> rhs, nAtA |-> 0]

\* a loop condition without the iteration cap
myCG_cond_nocap(s) == RGt(s.rTr, CGTol)

\* the loop condition
myCG_cond(s) == s.i < CGMaxIter /\ RGt(s.rTr, CGTol)

\* a loop body whose residual update has the wrong sign
myCG_body_plus(AtA, s) ==
    LET Ap     == AtA_call(AtA, s.p)
        alpha  == RDiv(s.rTr, TDotRe(s.p, Ap))
        x      == TAdd(s.x, TScale(alpha, s.p))
        r      == TAdd(s.r, TScale(alpha, Ap))
        rTrNew == TDotRe(r, r)
        beta   == RDiv(rTrNew, s.rTr)
        p      == TAdd(r, TScale(beta, s.p))
    IN  [i |-> s.i + 1, x |-> x, r |-> r, p |-> p, rTr |-> rTrNew,
         rhs |-> s.rhs, nAtA |-> s.nAtA + 1]

\* one pass through the loop body
myCG_body(AtA, s) ==
    LET Ap     == AtA_call(AtA, s.p)
        alpha  == RDiv(s.rTr, TDotRe(s.p, Ap))
        x      == TAdd(s.x, TScale(alpha, s.p))
        r      == TSub(s.r, TScale(alpha, Ap))
        rTrNew == TDotRe(r, r)
        beta   == RDiv(rTrNew, s.rTr)
        p      == TAdd(r, TScale(beta, s.p))
    IN  [i |-> s.i + 1, x |-> x, r |-> r, p |-> p, rTr |-> rTrNew,
         rhs |-> s.rhs, nAtA |-> s.nAtA + 1]

\* the value myCG returns
myCG_result(s) == c2r(s.x)

\* data_consistency.forward up to the call of myCG: rhs = x0 + lam * z_k
dc_rhs(lam, z_k, x0) ==
    Tup([b \in 1 .. Len(x0) |->
        <<Tup([q \in Pix |-> RAdd(x0[b][1][q], RMul(lam, z_k[b][1][q]))], NPix),
              Tup([q \in Pix |-> RAdd(x0[b][2][q], RMul(lam, z_k[b][2][q]))],
                  NPix)>>], Len(x0))

(***************************************************************************)
(* The denoisers                                                           *)
(***************************************************************************)
\* the layer stack self.nw with weights theta = <<w, b>>: a channelwise
\* affine map, the same at every pixel
nw(theta, x) ==
    Tup([b \in 1 .. Len(x) |->
        <<Tup([q \in Pix |-> RAdd(RMul(theta[1], x[b][1][q]), theta[2])], NPix),
              Tup([q \in Pix |-> RAdd(RMul(theta[1], x[b][2][q]), theta[2])],
                  NPix)>>], Len(x))

\* cnn_denoiser.forward: dw = nw(x) + idt
cnn_denoiser_forward(theta, x) ==
    LET idt == x
        y   == nw(theta, x)
    IN  Tup([b \in 1 .. Len(x) |->
            <<Tup([q \in Pix |-> RAdd(y[b][1][q], idt[b][1][q])], NPix),
              Tup([q \in Pix |-> RAdd(y[b][2][q], idt[b][2][q])], NPix)>>],
        Len(x))

\* networks.ResNet.forward: a residual network, output = network(x) + x
ResNet_forward(theta, x) ==
    LET y == nw(theta, x)
    IN  Tup([b \in 1 .. Len(x) |->
            <<Tup([q \in Pix |-> RAdd(y[b][1][q], x[b][1][q])], NPix),
              Tup([q \in Pix |-> RAdd(y[b][2][q], x[b][2][q])], NPix)>>],
        Len(x))

(***************************************************************************)
(* MoDL_ssdu.SSDU_kspace, with torch's broadcasting of the batch axis      *)
(***************************************************************************)
Bcast_ok(m, n) == m = n \/ m = 1 \/ n = 1

Bcast(m, n) == IF m = 1 THEN n ELSE m

\* element b along an axis that may have been broadcast from size 1
At(t, b) == t[IF Len(t) = 1 THEN 1 ELSE b]

\* whether one of the two broadcast products raises
SSDU_kspace_raises(img, csm, loss_mask) ==
    \/ ~Bcast_ok(Len(csm), Len(img))
    \/ ~Bcast_ok(Len(loss_mask), Bcast(Len(csm), Len(img)))

\* the coil-weighted unitary DFT before the mask, coils first:
\* fft_torch(swapaxes(csm, 0, 1) * r2c(img))
SSDU_unmasked(img, csm) ==
    LET im        == r2c(img)
        ncoil     == Len(csm[1])
        nb        == Bcast(Len(csm), Len(im))
        coil_imgs == Tup([c \in 1 .. ncoil |->
                            Tup([b \in 1 .. nb |->
                                    ImgMul(At(csm, b)[c], At(im, b))], nb)],
                         ncoil)
    IN  Tup([c \in 1 .. ncoil |->
                Tup([b \in 1 .. nb |-> fft_torch(coil_imgs[c][b])], nb)],
            ncoil)

\* a selection that broadcasts the k-space but never multiplies by the mask
SSDU_select_nomask(loss_mask, kspace) ==
    LET nb == Bcast(Len(loss_mask), Len(kspace[1]))
    IN  Tup([c \in 1 .. Len(kspace) |->
            Tup([b \in 1 .. nb |-> At(kspace[c], b)], nb)], Len(kspace))

\* the mask product loss_mask * kspace of line 160
SSDU_select(loss_mask, kspace) ==
    LET nb == Bcast(Len(loss_mask), Len(kspace[1]))
    IN  Tup([c \in 1 .. Len(kspace) |->
                Tup([b \in 1 .. nb |->
                        MaskMul(At(loss_mask, b), At(kspace[c], b))], nb)],
            Len(kspace))

\* swapaxes(t, 0, 1) of a coils-first tensor
swapaxes01(t) ==
    Tup([b \in 1 .. Len(t[1]) |->
            Tup([c \in 1 .. Len(t) |-> t[c][b]], Len(t))], Len(t[1]))

SSDU_kspace(img, csm, loss_mask) ==
    LET kspace == SSDU_unmasked(img, csm)
        output == swapaxes01(SSDU_select(loss_mask, kspace))
    IN  c2r_coils(output)

(***************************************************************************)
(* Bounds and the inputs the calls are drawn from                          *)
(***************************************************************************)
\* largest k_iters a model is built with
MaxK == 2

\* forward calls made on one model
MaxCalls == 2

Q(n) == <<n, 1>>

Cx(a, b) == <<Q(a), Q(b)>>

\* one batch element of a channel-pair image from integer pixel values
PairImg(re, im) ==
    <<Tup([q \in Pix |-> Q(re[q])], NPix), Tup([q \in Pix |-> Q(im[q])], NPix)>>

\* one coil map from integer (re, im) pixel values
CoilMap(re, im) == Tup([q \in Pix |-> Cx(re[q], im[q])], NPix)

\* x0: zero-filled reconstructions (B, 2, nrow, ncol), B = 1 and B = 2
X0Set ==
    { << PairImg(<<0, 0, 0, 0>>, <<0, 0, 0, 0>>) >>,
      << PairImg(<<2, 2, 0, 0>>, <<0, 0, 1, 1>>) >>,
      << PairImg(<<2, 2, 0, 0>>, <<0, 0, 1, 1>>),
         PairImg(<<1, 1, 1, 1>>, <<0, 0, 0, 0>>) >> }

\* csm: (B, ncoil, nrow, ncol) with one or two coils, B = 1 and B = 2
CsmSet ==
    { << << CoilMap(<<1, 1, 1, 1>>, <<0, 0, 0, 0>>) >> >>,
      << << CoilMap(<<1, 1, 0, 0>>, <<0, 0, 0, 0>>),
            CoilMap(<<0, 0, 0, 0>>, <<0, 0, 1, 1>>) >> >>,
      << << CoilMap(<<1, 1, 1, 1>>, <<0, 0, 0, 0>>) >>,
         << CoilMap(<<0, 0, 0, 0>>, <<1, 1, 1, 1>>) >> >> }

\* sampling masks (B, nrow, ncol), B = 1 and B = 2
MaskSet ==
    { << <<1, 1, 1, 1>> >>,
      << <<1, 0, 1, 0>> >>,
      << <<1, 1, 1, 1>>, <<1, 0, 1, 0>> >> }

\* loss masks (B, nrow, ncol), B = 1, 2 and 3
LossMaskSet ==
    { << <<0, 1, 0, 1>> >>,
      << <<0, 0, 1, 0>> >>,
      << <<0, 1, 1, 0>>, <<0, 0, 1, 1>> >>,
      << <<0, 1, 0, 1>>, <<0, 1, 0, 1>>, <<0, 0, 0, 1>> >> }

\* denoiser weights <<w, b>>
ThetaSet == { <<Q(0), Q(0)>>, <<Q(0), Q(1)>> }

\* lam of data_consistency.__init__: torch.tensor(0.05)
LamInit == Rat(1, 20)

\* values of the learned lam
LamSet == { LamInit, Rat(1, 2) }

\* model_params handed to get_model
ParamSet == { [n_layers |-> 5, k_iters |-> kk] : kk \in 0 .. MaxK }

NameSet == { "base_modl", "base_modl_ssdu", "base_varnet", "base_unet", "" }

DeviceSet == { "cpu", "cuda" }

(***************************************************************************)
(* State                                                                   *)
(***************************************************************************)
VARIABLES
    pc,      \* position of the running call
    exc,     \* the exception a call ended with, "" if none
    model,   \* the model object get_model built
    fac,     \* what get_model did
    inp,     \* arguments of the running forward call
    k,       \* loop index of forward
    x_k,     \* forward's x_k (channel pair)
    z_k,     \* forward's z_k (channel pair), <<>> while unbound
    AtA,     \* the operator handed to myCG
    cg,      \* locals of myCG
    rec,     \* what myCG returned
    log,     \* denoiser and data-consistency calls of the running forward
    out,     \* what forward returned
    hist,    \* the previous completed forward call
    ncalls,  \* forward calls made so far
    dir,     \* the files of checkpoints_dir
    saver,   \* fields of the CheckpointSaver
    optim,   \* state of the optimizer object
    sched,   \* the scheduler object, or none
    last,    \* the CheckpointSaver call that just returned: arguments,
             \* pre-state, outcome
    saved,   \* what the latest save_checkpoints call was given
    seen,    \* scores submitted to save_model(final=False), and whether no
             \* other CheckpointSaver call was made
    nops     \* CheckpointSaver calls made so far

netvars == <<pc, exc, model, fac, inp, k, x_k, z_k, AtA, cg, rec, log, out,
             hist, ncalls>>

savervars == <<dir, saver, optim, sched, last, saved, seen, nops>>

vars == <<netvars, savervars>>

NoModel ==
    [kind |-> "none", n_layers |-> 0, k_iters |-> 0, lam |-> RZero,
     theta |-> <<RZero, RZero>>, device |-> "none"]

NoFac ==
    [called |-> FALSE, name |-> "", constructed |-> {}, moved |-> FALSE,
     returned |-> FALSE]

NoInp == [x0 |-> <<>>, csm |-> <<>>, mask |-> <<>>, loss_mask |-> <<>>]

NoAtA ==
[kind |-> "none", csm |-> <<>>, mask |-> <<>>, lam |-> RZero]

NoCg ==
    [i |-> 0, x |-> <<>>, r |-> <<>>, p |-> <<>>, rTr |-> RZero, rhs |-> <<>>,
     nAtA |-> 0]

NoOut == [x_k |-> <<>>, kspace |-> <<>>, z_k |-> <<>>]

NoHist ==
    [valid |-> FALSE, inp |-> NoInp, lam |-> RZero,
     theta |-> <<RZero, RZero>>, out |-> NoOut]

(***************************************************************************)
(* get_model                                                               *)
(***************************************************************************)
\* MoDL.__init__ / MoDL_ssdu.__init__ / VarNet(**model_params)
NewModel(kind, params, theta) ==
    [kind |-> kind, n_layers |-> params.n_layers, k_iters |-> params.k_iters,
     lam |-> LamInit, theta |-> theta, device |-> "cpu"]

\* a get_model that falls back to MoDL for a name it does not know
get_model_kind_fallback(model_name) ==
    IF model_name = "base_modl_ssdu" THEN "MoDL_ssdu"
    ELSE IF model_name = "base_varnet" THEN "VarNet"
    ELSE "MoDL"

\* the three ifs of get_model in turn; "unbound" while no branch assigned model
get_model_kind(model_name) ==
    LET m1 == IF model_name = "base_modl" THEN "MoDL" ELSE "unbound"
        m2 == IF model_name = "base_modl_ssdu" THEN "MoDL_ssdu" ELSE m1
        m3 == IF model_name = "base_varnet" THEN "VarNet" ELSE m2
    IN  m3

get_model(model_name, model_params, device) ==
    /\ pc = "start"
    /\ LET kind == get_model_kind(model_name)
       IN  IF kind = "unbound"
           THEN \* model.to(device) reads a local that was never assigned
                /\ pc' = "raised"
                /\ exc' = "UnboundLocalError"
                /\ model' = NoModel
                /\ fac' = [called |-> TRUE, name |-> model_name,
                           constructed |-> {}, moved |-> FALSE,
                           returned |-> FALSE]
           ELSE \E theta \in ThetaSet :
                /\ pc' = "ready"
                /\ exc' = ""
                /\ model' = [NewModel(kind, model_params, theta)
                                EXCEPT !.device = device]
                /\ fac' = [called |-> TRUE, name |-> model_name,
                           constructed |-> {kind}, moved |-> TRUE,
                           returned |-> TRUE]
    /\ UNCHANGED <<inp, k, x_k, z_k, AtA, cg, rec, log, out, hist, ncalls,
                   savervars>>

\* the training loop's optimizer step between calls: new weights and lam
optimizer_step ==
    /\ pc = "ready"
    /\ model.kind \in {"MoDL", "MoDL_ssdu"}
    /\ \E lam \in LamSet, theta \in ThetaSet :
          /\ <<lam, theta>> # <<model.lam, model.theta>>
          /\ model' = [model EXCEPT !.lam = lam, !.theta = theta]
    /\ UNCHANGED <<pc, exc, fac, inp, k, x_k, z_k, AtA, cg, rec, log, out,
                   hist, ncalls,
                   savervars>>

(***************************************************************************)
(* MoDL.forward and MoDL_ssdu.forward                                      *)
(***************************************************************************)
\* the denoiser self.dw of the model
dw(m, x) ==
    IF m.kind = "MoDL" THEN cnn_denoiser_forward(m.theta, x)
    ELSE ResNet_forward(m.theta, x)

\* a forward that hands the current estimate to self.dc in place of x0
dc_args_estimate(zk, xk, call) ==
    [z_k |-> zk, x0 |-> xk, csm |-> call.csm, mask |-> call.mask]

\* a forward that hands the loss mask to self.dc
dc_args_lossmask(zk, xk, call) ==
    [z_k |-> zk, x0 |-> call.x0, csm |-> call.csm,
     mask |-> IF call.loss_mask = <<>> THEN call.mask ELSE call.loss_mask]

\* the arguments forward hands to self.dc in iteration k
dc_args(zk, xk, call) ==
    [z_k |-> zk, x0 |-> call.x0, csm |-> call.csm, mask |-> call.mask]

\* entry of forward: x_k = x0.clone()
forward_enter(call) ==
    /\ inp' = call
    /\ x_k' = call.x0
    /\ z_k' = <<>>
    /\ k' = 0
    /\ log' = <<>>
    /\ out' = NoOut
    /\ AtA' = NoAtA
    /\ cg' = NoCg
    /\ rec' = <<>>
    /\ exc' = ""
    /\ ncalls' = ncalls + 1
    /\ pc' = "loop"

\* the first call of forward on the model
forward_call ==
    /\ pc = "ready"
    /\ model.kind \in {"MoDL", "MoDL_ssdu"}
    /\ \E x0 \in X0Set, csm \in CsmSet, mask \in MaskSet,
          lm \in (IF model.kind = "MoDL" THEN {<<>>} ELSE LossMaskSet) :
          forward_enter([x0 |-> x0, csm |-> csm, mask |-> mask,
                         loss_mask |-> lm])
    /\ hist' = NoHist
    /\ UNCHANGED <<model, fac,
                   savervars>>

\* MoDL_ssdu.forward again on the same data with another loss mask
forward_recall ==
    /\ pc = "done"
    /\ model.kind = "MoDL_ssdu"
    /\ ncalls < MaxCalls
    /\ \E lm \in LossMaskSet \ {inp.loss_mask} :
          forward_enter([inp EXCEPT !.loss_mask = lm])
    /\ hist' = [valid |-> TRUE, inp |-> inp, lam |-> model.lam,
                theta |-> model.theta, out |-> out]
    /\ UNCHANGED <<model, fac,
                   savervars>>

\* z_k = self.dw(x_k)
forward_denoise ==
    /\ pc = "loop"
    /\ k < model.k_iters
    /\ z_k' = dw(model, x_k)
    /\ log' = Append(log, [op |-> "dw", inp |-> x_k, x0 |-> <<>>,
                           csm |-> <<>>, mask |-> <<>>, out |-> z_k'])
    /\ pc' = "dc"
    /\ UNCHANGED <<exc, model, fac, inp, k, x_k, AtA, cg, rec, out, hist,
                   ncalls,
                   savervars>>

\* self.dc(...) up to the loop of myCG: rhs, the operator, the CG locals
data_consistency_enter ==
    /\ pc = "dc"
    /\ LET a == dc_args(z_k, x_k, inp)
       IN  /\ AtA' = myAtA(a.csm, a.mask, model.lam)
           /\ cg' = myCG_init(dc_rhs(model.lam, a.z_k, a.x0))
           /\ log' = Append(log, [op |-> "dc", inp |-> a.z_k, x0 |-> a.x0,
                                  csm |-> a.csm, mask |-> a.mask,
                                  out |-> <<>>])
    /\ pc' = "cg"
    /\ UNCHANGED <<exc, model, fac, inp, k, x_k, z_k, rec, out, hist, ncalls,
                   savervars>>

\* one iteration of the while loop of myCG
myCG_iter ==
    /\ pc = "cg"
    /\ myCG_cond(cg)
    /\ IF AtA_raises(AtA, cg.p)
       THEN /\ pc' = "raised"
            /\ exc' = "ShapeMismatch"
            /\ cg' = cg
       ELSE /\ cg' = myCG_body(AtA, cg)
            /\ UNCHANGED <<pc, exc>>
    /\ UNCHANGED <<model, fac, inp, k, x_k, z_k, AtA, rec, log, out, hist,
                   ncalls,
                   savervars>>

\* myCG returns into data_consistency.forward and forward: x_k = self.dc(...)
data_consistency_return ==
    /\ pc = "cg"
    /\ inp # NoInp
    /\ ~myCG_cond(cg)
    /\ rec' = myCG_result(cg)
    /\ x_k' = rec'
    /\ log' = [log EXCEPT ![Len(log)].out = rec']
    /\ k' = k + 1
    /\ pc' = "loop"
    /\ UNCHANGED <<exc, model, fac, inp, z_k, AtA, cg, out, hist, ncalls,
                   savervars>>

\* after the loop: the SSDU projection (MoDL_ssdu) and the return statement
forward_return ==
    /\ pc = "loop"
    /\ k >= model.k_iters
    /\ IF model.kind = "MoDL_ssdu"
          /\ SSDU_kspace_raises(x_k, inp.csm, inp.loss_mask)
       THEN /\ pc' = "raised"
            /\ exc' = "RuntimeError"
            /\ out' = out
       ELSE IF z_k = <<>>
       THEN \* r2c(z_k) with z_k never assigned (k_iters = 0)
            /\ pc' = "raised"
            /\ exc' = "UnboundLocalError"
            /\ out' = out
       ELSE /\ pc' = "done"
            /\ exc' = ""
            /\ out' = [x_k |-> r2c(x_k),
                       kspace |-> IF model.kind = "MoDL_ssdu"
                                  THEN SSDU_kspace(x_k, inp.csm, inp.loss_mask)
                                  ELSE <<>>,
                       z_k |-> r2c(z_k)]
    /\ UNCHANGED <<model, fac, inp, k, x_k, z_k, AtA, cg, rec, log, hist,
                   ncalls,
                   savervars>>

(***************************************************************************)
(* CheckpointSaver                                                         *)
(***************************************************************************)
\* CheckpointSaver calls made in one run
MaxOps == 3

\* epochs of training in one run
MaxEpoch == 1

\* scores (PSNR / SSIM values) in units of 1e-5; none ends in the digit 5
ScoreSet == { 12, 14, 27 }

PrefixSet == { "inter", "best", "final", "tmp" }

\* '{:04d}'.format(epoch) for 0 <= epoch < 10000: the four decimal digits
Fmt04d(epoch) ==
    <<(epoch \div 1000) % 10, (epoch \div 100) % 10, (epoch \div 10) % 10,
      epoch % 10>>

\* '{:.4f}'.format(score): the nearest multiple of 1e-4, in units of 1e-4
Fmt4f(score) ==
    IF score >= 0 THEN (score + 5) \div 10 ELSE -((5 - score) \div 10)

\* '<prefix>.epoch{:04d}-score{:.4f}.pth'
FileName(prefix, epoch, score) == <<prefix, Fmt04d(epoch), Fmt4f(score)>>

\* 'inter.pth'
InterName == <<"inter", <<>>, 0>>

\* str.startswith for the leading word of a file name
startswith(f, prefix) == f[1] = prefix

\* model.state_dict() and model.load_state_dict(sd)
state_dict(m) == [lam |-> m.lam, theta |-> m.theta]

load_state_dict(m, sd) == [m EXCEPT !.lam = sd.lam, !.theta = sd.theta]

NoStateDict == [lam |-> RZero, theta |-> <<RZero, RZero>>]

\* the object torch.save writes for a model file: the state dict alone
ModelFile(sd) ==
    [model_state_dict |-> sd, epoch |-> 0, optim_state_dict |-> 0,
     scheduler_state_dict |-> 0, best_score |-> 0]

\* scheduler.state_dict() if scheduler else None (None is -1)
scheduler_state_dict(sc) == IF sc.present THEN sc.state ELSE -1

\* os.listdir, os.remove and torch.save on the directory
listdir(d) == { f.name : f \in d }

Remove(d, name) == { f \in d : f.name # name }

Write(d, name, data) == Remove(d, name) \cup { [name |-> name, data |-> data] }

ReadFile(d, name) == (CHOOSE f \in d : f.name = name).data

\* the orders in which os.listdir may return the names
RECURSIVE Orders(_)
Orders(S) ==
    IF S = {} THEN { <<>> }
    ELSE UNION { { <<f>> \o o : o \in Orders(S \ {f}) } : f \in S }

NoLast ==
    [op |-> "", score |-> 0, epoch |-> 0, final |-> FALSE, prefix |-> "",
     pre_dir |-> {}, pre_saver |-> [best_score |-> 0, saved_epoch |-> 0],
     pre_optim |-> 0, pre_sched |-> 0,
     nwrites |-> 0, exc |-> "", start_epoch |-> 0, scheduler |-> ""]

NoSaved ==
    [valid |-> FALSE, epoch |-> 0, best_score |-> 0, model |-> NoStateDict,
     optim |-> 0, sched |-> 0]

\* CheckpointSaver.__init__
CheckpointSaver_init == [best_score |-> 0, saved_epoch |-> 0]

\* the loop of the final branch over the listing taken when it starts;
\* st carries the directory, the saver fields and the number of torch.save
RECURSIVE save_model_final_loop(_, _, _, _, _)
save_model_final_loop(listing, st, sd, current_score, current_epoch) ==
    IF listing = <<>> THEN st
    ELSE LET f          == Head(listing)
             d1         == IF startswith(f, "final") THEN Remove(st.dir, f)
                           ELSE st.dir
             model_path == FileName("final", current_epoch, current_score)
             d2         == Write(d1, model_path, ModelFile(sd))
         IN  save_model_final_loop(
                 Tail(listing),
                 [dir |-> d2,
                  saver |-> [best_score |-> current_score,
                             saved_epoch |-> current_epoch],
                  nwrites |-> st.nwrites + 1],
                 sd, current_score, current_epoch)

\* a test that lets every score through
save_model_always(current_score, best_score) == TRUE

\* the test of the other branch: current_score >= self.best_score
save_model_improved(current_score, best_score) == current_score >= best_score

\* the other branch once the test passed: prev_model is the first 'best' file
\* of the listing, if any
save_model_best(d, prev_model, sd, current_score, current_epoch) ==
    LET d1 == IF prev_model # <<>> /\ prev_model \in listdir(d)
              THEN Remove(d, prev_model) ELSE d
    IN  Write(d1, FileName("best", current_epoch, current_score),
              ModelFile(sd))

save_model(current_score, current_epoch, final) ==
    /\ pc = "ready"
    /\ nops < MaxOps
    /\ nops' = nops + 1
    /\ LET sd == state_dict(model)
           l0 == [NoLast EXCEPT !.op = "save_model", !.score = current_score,
                                !.epoch = current_epoch, !.final = final,
                                !.pre_dir = dir, !.pre_saver = saver]
       IN  IF final
           THEN \* whatever the order of the listing
                \E st \in { save_model_final_loop(
                                listing,
                                [dir |-> dir, saver |-> saver, nwrites |-> 0],
                                sd, current_score, current_epoch) :
                            listing \in Orders(listdir(dir)) } :
                  /\ dir' = st.dir
                  /\ saver' = st.saver
                  /\ last' = [l0 EXCEPT !.nwrites = st.nwrites]
                  /\ seen' = [seen EXCEPT !.pure = FALSE]
           ELSE IF save_model_improved(current_score, saver.best_score)
           THEN LET prev_models ==
                        { f \in listdir(dir) : startswith(f, "best") }
                IN  \E prev_model \in
                        (IF prev_models = {} THEN { <<>> } ELSE prev_models) :
                      /\ dir' = save_model_best(dir, prev_model, sd,
                                                current_score, current_epoch)
                      /\ saver' = [best_score |-> current_score,
                                   saved_epoch |-> current_epoch]
                      /\ last' = [l0 EXCEPT !.nwrites = 1]
                      /\ seen' = [seen EXCEPT
                                    !.scores = @ \cup {current_score}]
           ELSE /\ last' = l0
                /\ seen' = [seen EXCEPT !.scores = @ \cup {current_score}]
                /\ UNCHANGED <<dir, saver>>
    /\ UNCHANGED <<netvars, optim, sched, saved>>

save_checkpoints(epoch) ==
    /\ pc = "ready"
    /\ nops < MaxOps
    /\ nops' = nops + 1
    /\ dir' = Write(dir, InterName,
                    [model_state_dict |-> state_dict(model),
                     epoch |-> epoch,
                     optim_state_dict |-> optim,
                     scheduler_state_dict |-> scheduler_state_dict(sched),
                     best_score |-> saver.best_score])
    /\ saved' = [valid |-> TRUE, epoch |-> epoch,
                 best_score |-> saver.best_score, model |-> state_dict(model),
                 optim |-> optim, sched |-> scheduler_state_dict(sched)]
    /\ last' = [NoLast EXCEPT !.op = "save_checkpoints", !.epoch = epoch,
                              !.pre_dir = dir, !.pre_saver = saver,
                              !.nwrites = 1]
    /\ seen' = [seen EXCEPT !.pure = FALSE]
    /\ UNCHANGED <<netvars, saver, optim, sched>>

\* what load_checkpoints returns as scheduler: line 121 rebinds the name to
\* the value of scheduler.load_state_dict(...), which returns None
load_checkpoints_scheduler(sc) == "None"

\* load with restore_path = checkpoints_dir
load(prefix) ==
    /\ pc = "ready"
    /\ nops < MaxOps
    /\ nops' = nops + 1
    /\ seen' = [seen EXCEPT !.pure = FALSE]
    /\ LET matches == { f \in listdir(dir) : startswith(f, prefix) }
           l0 == [NoLast EXCEPT !.op = "load", !.prefix = prefix,
                                !.pre_dir = dir, !.pre_saver = saver,
                                !.pre_optim = optim,
                                !.pre_sched = scheduler_state_dict(sched)]
       IN  IF matches = {}
           THEN \* [...][0] of an empty list
                /\ last' = [l0 EXCEPT !.exc = "IndexError"]
                /\ UNCHANGED <<model, saver, optim, sched>>
           ELSE \E checkpoint_path \in matches :
                  LET checkpoints == ReadFile(dir, checkpoint_path)
                  IN  IF prefix = "inter"
                      THEN \* load_checkpoints
                           /\ model' = load_state_dict(
                                           model, checkpoints.model_state_dict)
                           /\ optim' = checkpoints.optim_state_dict
                           /\ sched' = IF sched.present
                                       THEN [sched EXCEPT !.state =
                                              checkpoints.scheduler_state_dict]
                                       ELSE sched
                           /\ saver' = [saver EXCEPT !.best_score =
                                                   checkpoints.best_score]
                           /\ last' = [l0 EXCEPT
                                 !.start_epoch = checkpoints.epoch + 1,
                                 !.scheduler =
                                     IF sched.present
                                     THEN load_checkpoints_scheduler(sched)
                                     ELSE "None"]
                      ELSE IF prefix \in {"best", "final"}
                      THEN \* load_model
                           /\ model' = load_state_dict(
                                           model, checkpoints.model_state_dict)
                           /\ last' = [l0 EXCEPT
                                 !.start_epoch = 0,
                                 !.scheduler = IF sched.present THEN "obj"
                                               ELSE "None"]
                           /\ UNCHANGED <<saver, optim, sched>>
                      ELSE /\ last' = [l0 EXCEPT !.exc = "NotImplementedError"]
                           /\ UNCHANGED <<model, saver, optim, sched>>
    /\ UNCHANGED <<pc, exc, fac, inp, k, x_k, z_k, AtA, cg, rec, log, out,
                   hist, ncalls, dir, saved>>

\* one epoch of the training loop: the optimizer steps move lam, and the
\* states of the optimizer and of the scheduler advance
train_epoch ==
    /\ pc = "ready"
    /\ optim < MaxEpoch
    /\ \E lam \in LamSet \ {model.lam} : model' = [model EXCEPT !.lam = lam]
    /\ optim' = optim + 1
    /\ sched' = IF sched.present THEN [sched EXCEPT !.state = @ + 1] ELSE sched
    /\ last' = NoLast
    /\ UNCHANGED <<pc, exc, fac, inp, k, x_k, z_k, AtA, cg, rec, log, out,
                   hist, ncalls, dir, saver, saved, seen, nops>>

\* a stray file, and final files left by earlier runs
TmpFile == [name |-> <<"tmp", <<>>, 0>>, data |-> ModelFile(NoStateDict)]

OldFinal(epoch, score) ==
    [name |-> FileName("final", epoch, score), data |-> ModelFile(NoStateDict)]

\* directories a run may start from
InitDirSet ==
    { {}, { TmpFile }, { OldFinal(0, 12), OldFinal(1, 27) } }

SchedSet ==
    { [present |-> FALSE, state |-> -1], [present |-> TRUE, state |-> 0] }

(***************************************************************************)
(* The network: get_model and forward calls on the model it built          *)
(***************************************************************************)
IdleNet ==
    /\ exc = ""
    /\ inp = NoInp
    /\ k = 0
    /\ x_k = <<>>
    /\ z_k = <<>>
    /\ AtA = NoAtA
    /\ cg = NoCg
    /\ rec = <<>>
    /\ log = <<>>
    /\ out = NoOut
    /\ hist = NoHist
    /\ ncalls = 0

IdleSaver ==
    /\ dir = {}
    /\ saver = CheckpointSaver_init
    /\ optim = 0
    /\ sched = [present |-> FALSE, state |-> -1]
    /\ last = NoLast
    /\ saved = NoSaved
    /\ seen = [pure |-> TRUE, scores |-> {}]
    /\ nops = 0

Init ==
    /\ pc = "start"
    /\ model = NoModel
    /\ fac = NoFac
    /\ IdleNet
    /\ IdleSaver

Next ==
    \/ \E n \in NameSet, prm \in ParamSet, d \in DeviceSet :
          get_model(n, prm, d)
    \/ optimizer_step
    \/ forward_call
    \/ forward_recall
    \/ forward_denoise
    \/ data_consistency_enter
    \/ myCG_iter
    \/ data_consistency_return
    \/ forward_return

Spec == Init /\ [][Next]_vars

(***************************************************************************)
(* myCG alone: one call on an operator and a right-hand side               *)
(***************************************************************************)
\* operators: myAtA over the coil maps, masks and lam values, and LaplaceOp
CGCsmSet ==
    CsmSet \cup
    { << << CoilMap(<<1, 0, 0, 1>>, <<0, 1, 0, 0>>),
            CoilMap(<<0, 0, 1, 0>>, <<0, 0, 0, 0>>) >> >> }

CGOpSet ==
    { myAtA(c, m, l) : c \in CGCsmSet, m \in MaskSet, l \in LamSet }
        \cup { LaplaceOp }

\* right-hand sides (B, 2, nrow, ncol), B = 1, 2 and 3: zero, squared norm
\* equal to the threshold, and above it
CGRhsSet ==
    X0Set \cup
    { << PairImg(<<1, 0, 0, 0>>, <<0, 0, 0, 0>>) >>,
      << PairImg(<<1, 1, 1, 1>>, <<0, 0, 0, 0>>) >>,
      << PairImg(<<2, 0, 1, 0>>, <<0, 1, 0, 0>>) >>,
      << PairImg(<<12, 0, 0, 0>>, <<0, 0, 0, 0>>),
         PairImg(<<0, 0, 0, 0>>, <<0, 0, 0, 0>>),
         PairImg(<<0, 0, 0, 0>>, <<0, 0, 0, 0>>) >> }

\* return c2r(x, axis=1) to a caller other than data_consistency
myCG_return ==
    /\ pc = "cg"
    /\ inp = NoInp
    /\ ~myCG_cond(cg)
    /\ rec' = myCG_result(cg)
    /\ pc' = "cg_done"
    /\ UNCHANGED <<exc, model, fac, inp, k, x_k, z_k, AtA, cg, log, out, hist,
                   ncalls, savervars>>

InitCG ==
    /\ pc = "cg"
    /\ model = NoModel
    /\ fac = NoFac
    /\ exc = ""
    /\ inp = NoInp
    /\ k = 0
    /\ x_k = <<>>
    /\ z_k = <<>>
    /\ AtA \in CGOpSet
    /\ \E rhs \in CGRhsSet : cg = myCG_init(rhs)
    /\ rec = <<>>
    /\ log = <<>>
    /\ out = NoOut
    /\ hist = NoHist
    /\ ncalls = 0
    /\ IdleSaver

NextCG ==
    \/ myCG_iter
    \/ myCG_return

SpecCG == InitCG /\ [][NextCG]_vars

(***************************************************************************)
(* The checkpoint layer around a model in training                         *)
(***************************************************************************)
InitSaver ==
    /\ pc = "ready"
    /\ model = NewModel("MoDL", [n_layers |-> 5, k_iters |-> 1],
                        <<RZero, ROne>>)
    /\ fac = [called |-> TRUE, name |-> "base_modl", constructed |-> {"MoDL"},
              moved |-> TRUE, returned |-> TRUE]
    /\ IdleNet
    /\ dir \in InitDirSet
    /\ saver = CheckpointSaver_init
    /\ optim = 0
    /\ sched \in SchedSet
    /\ last = NoLast
    /\ saved = NoSaved
    /\ seen = [pure |-> TRUE, scores |-> {}]
    /\ nops = 0

\* the training loop hands the saver the number of the epoch it is in, here
\* the number of epochs the optimizer has stepped through
NextSaver ==
    \/ \E sc \in ScoreSet, final \in BOOLEAN : save_model(sc, optim, final)
    \/ save_checkpoints(optim)
    \/ \E prefix \in PrefixSet : load(prefix)
    \/ train_epoch

SpecSaver == InitSaver /\ [][NextSaver]_vars
(***************************************************************************)
(* Properties                                                              *)
(***************************************************************************)
SupportedNames == { "base_modl", "base_modl_ssdu", "base_varnet" }

\* the batch sizes of the arguments of a forward call disagree
Mismatched(call) ==
    \/ Len(call.x0) # Len(call.csm)
    \/ Len(call.csm) # Len(call.mask)
    \/ call.loss_mask # <<>> /\ Len(call.loss_mask) # Len(call.x0)

\* C1: one forward call applies the denoiser and the data-consistency step in
\* strict alternation, denoiser first; the denoiser gets the current estimate,
\* the data-consistency step gets the denoiser's output and the original x0,
\* csm and mask; a call that returns made exactly k_iters >= 1 applications of
\* each and returns the last data-consistency result as x_k and the last
\* denoiser result as z_k.
C1_Alternation ==
    /\ Len(log) <= 2 * model.k_iters
    /\ \A i \in 1 .. Len(log) :
          IF i % 2 = 1
          THEN /\ log[i].op = "dw"
               /\ log[i].inp = (IF i = 1 THEN inp.x0 ELSE log[i - 1].out)
          ELSE /\ log[i].op = "dc"
               /\ log[i].inp = log[i - 1].out
               /\ log[i].x0 = inp.x0
               /\ log[i].csm = inp.csm
               /\ log[i].mask = inp.mask
    /\ pc = "done" =>
          /\ model.k_iters >= 1
          /\ Len(log) = 2 * model.k_iters
          /\ out.x_k = r2c(log[Len(log)].out)
          /\ out.z_k = r2c(log[Len(log) - 1].out)

\* a call with two iterations returned, and its estimate had moved off x0
C1_Witness ==
    /\ pc = "done"
    /\ model.k_iters >= 2
    /\ Len(log) = 2 * model.k_iters
    /\ log[3].inp # inp.x0

C2_Inv ==
    /\ cg.i <= CGMaxIter
    /\ cg.nAtA <= CGMaxIter
    /\ cg.nAtA = cg.i
    /\ (cg.rhs # <<>> /\ ~RGt(TDotRe(cg.rhs, cg.rhs), CGTol)) =>
          /\ cg.i = 0
          /\ cg.x = TZerosLike(cg.rhs)
    /\ pc = "cg_done" =>
          /\ rec = c2r(cg.x)
          /\ cg.i = CGMaxIter \/ ~RGt(cg.rTr, CGTol)

C2_Step ==
    cg'.i # cg.i =>
        /\ cg.i < CGMaxIter
        /\ RGt(cg.rTr, CGTol)
        /\ cg'.i = cg.i + 1
        /\ cg'.nAtA = cg.nAtA + 1

\* C2: a myCG call ends after at most 10 iterations: every iteration raises
\* the counter by one and runs only while the counter is below 10 and rTr is
\* above 1e-10, so the counter never passes 10; AtA is applied once per
\* iteration, at most 10 times; with the initial rTr at or below 1e-10 no
\* iteration runs and x = 0; a call that returns stopped at the cap or at
\* the threshold.
C2_Terminates ==
    /\ []C2_Inv
    /\ [][C2_Step]_vars

\* a call that ran into the cap with rTr still above the threshold
C2_Witness ==
    /\ pc = "cg_done"
    /\ cg.i = CGMaxIter
    /\ RGt(cg.rTr, CGTol)

\* the textbook conjugate-gradient iterate number n for the system AtA x = rhs
RECURSIVE CG_reference(_, _, _)
CG_reference(A, rhs, n) ==
    IF n = 0
    THEN [x |-> TZerosLike(rhs), r |-> rhs, p |-> rhs, rTr |-> TDotRe(rhs, rhs)]
    ELSE LET s     == CG_reference(A, rhs, n - 1)
             q     == AtA_call(A, s.p)
             alpha == RDiv(TDotRe(s.r, s.r), TDotRe(s.p, q))
             x     == TAdd(s.x, TScale(alpha, s.p))
             r     == TSub(s.r, TScale(alpha, q))
             beta  == RDiv(TDotRe(r, r), TDotRe(s.r, s.r))
         IN  [x |-> x, r |-> r, p |-> TAdd(r, TScale(beta, s.p)),
              rTr |-> TDotRe(r, r)]

\* C3: after every iteration the locals (x, r, p, rTr) of myCG are those of
\* the textbook conjugate-gradient method after as many steps, and
\* r = rhs - AtA(x).
C3_Recurrence ==
    (pc \in {"cg", "cg_done"} /\ ~AtA_raises(AtA, cg.rhs)) =>
        /\ LET ref == CG_reference(AtA, cg.rhs, cg.i)
           IN  /\ cg.x = ref.x
               /\ cg.r = ref.r
               /\ cg.p = ref.p
               /\ cg.rTr = ref.rTr
        /\ cg.r = TSub(cg.rhs, AtA_call(AtA, cg.x))

\* a call on a myAtA operator that took three iterations
C3_Witness ==
    /\ pc = "cg_done"
    /\ AtA.kind = "myAtA"
    /\ cg.i >= 3
    /\ cg.x # TZerosLike(cg.rhs)

\* the complex entry (b, c, q) of a (B, 2, ncoil, nrow, ncol) tensor
KspaceAt(t, b, c, q) == <<t[b][1][c][q], t[b][2][c][q]>>

\* C4: the k-space MoDL_ssdu.forward returns is zero in both channels wherever
\* the loss mask is 0 and is the coil-weighted Fourier transform of the
\* reconstruction wherever the loss mask is 1.
C4_LossMaskOnly ==
    (pc = "done" /\ model.kind = "MoDL_ssdu") =>
        LET un == SSDU_unmasked(x_k, inp.csm)
        IN  \A b \in 1 .. Len(out.kspace) :
              \A c \in 1 .. Len(out.kspace[b][1]) :
                \A q \in Pix :
                  KspaceAt(out.kspace, b, c, q) =
                      (IF At(inp.loss_mask, b)[q] = 0 THEN CZero
                       ELSE At(un[c], b)[q])

\* a returned k-space with a non-zero transform cut away at one location and
\* kept at another
C4_Witness ==
    /\ pc = "done"
    /\ model.kind = "MoDL_ssdu"
    /\ LET un == SSDU_unmasked(x_k, inp.csm)
       IN  /\ \E b \in 1 .. Len(out.kspace), q \in Pix :
                /\ At(inp.loss_mask, b)[q] = 0
                /\ At(un[1], b)[q] # CZero
           /\ \E b \in 1 .. Len(out.kspace), q \in Pix :
                /\ At(inp.loss_mask, b)[q] = 1
                /\ KspaceAt(out.kspace, b, 1, q) # CZero

\* C5: two MoDL_ssdu.forward calls with the same x0, csm, training mask and
\* parameters that differ in the loss mask return the same x_k and z_k, and
\* every data-consistency step is handed the training mask.
C5_LossMaskUnseen ==
    /\ \A i \in 1 .. Len(log) :
          log[i].op = "dc" => log[i].mask = inp.mask
    /\ (/\ pc = "done"
        /\ hist.valid
        /\ hist.inp.x0 = inp.x0
        /\ hist.inp.csm = inp.csm
        /\ hist.inp.mask = inp.mask
        /\ hist.lam = model.lam
        /\ hist.theta = model.theta
        /\ hist.inp.loss_mask # inp.loss_mask) =>
          /\ out.x_k = hist.out.x_k
          /\ out.z_k = hist.out.z_k

\* two such calls returned, with different k-space projections of a
\* reconstruction that is not zero
C5_Witness ==
    /\ pc = "done"
    /\ hist.valid
    /\ hist.inp.loss_mask # inp.loss_mask
    /\ hist.out.kspace # out.kspace
    /\ out.x_k # TZerosLike(inp.x0)
    /\ inp.loss_mask # inp.mask

\* C6: a forward call whose x0, csm and mask disagree in shape is rejected
\* before any denoiser or data-consistency application, and returns nothing.
C6_RejectedFirst ==
    (inp # NoInp /\ Mismatched(inp)) =>
        /\ log = <<>>
        /\ cg.nAtA = 0
        /\ pc # "done"

\* C7: get_model called with an unsupported name ends in an error: nothing
\* is constructed, moved to a device or returned.
C7_UnsupportedName ==
    (fac.called /\ fac.name \notin SupportedNames) =>
        /\ pc = "raised"
        /\ exc # ""
        /\ fac.constructed = {}
        /\ ~fac.moved
        /\ ~fac.returned
        /\ model = NoModel

\* get_model was called with 'base_unet'
C7_Witness ==
    /\ fac.called
    /\ fac.name = "base_unet"
    /\ pc = "raised"

\* the names in the directory that start with a prefix
Named(d, prefix) == { f \in listdir(d) : startswith(f, prefix) }

\* C8: after save_model(final=True) the directory holds exactly one 'final'
\* file, named for the call's epoch and score, the state was written once and
\* best_score / saved_epoch are the call's score and epoch.
C8_FinalSavedOnce ==
    (last.op = "save_model" /\ last.final) =>
        /\ Named(dir, "final") = { FileName("final", last.epoch, last.score) }
        /\ last.nwrites = 1
        /\ saver = [best_score |-> last.score, saved_epoch |-> last.epoch]

\* C9: load with prefix 'inter' after save_checkpoints(e) returns e + 1,
\* restores best_score and the saved states of model, optimizer and scheduler,
\* and returns None as scheduler only when none was passed; load with prefix
\* 'best' or 'final' returns 0 and leaves optimizer, scheduler and best_score.
C9_RoundTrip ==
    /\ (last.op = "load" /\ last.prefix = "inter" /\ last.exc = ""
            /\ saved.valid) =>
          /\ last.start_epoch = saved.epoch + 1
          /\ saver.best_score = saved.best_score
          /\ state_dict(model) = saved.model
          /\ optim = saved.optim
          /\ sched.present => sched.state = saved.sched
          /\ (last.scheduler = "None") <=> ~sched.present
    /\ (last.op = "load" /\ last.prefix \in {"best", "final"}
            /\ last.exc = "") =>
          /\ last.start_epoch = 0
          /\ saver = last.pre_saver
          /\ optim = last.pre_optim
          /\ scheduler_state_dict(sched) = last.pre_sched
          /\ (last.scheduler = "None") <=> ~sched.present

RECURSIVE MaxOf(_)
MaxOf(S) ==
    LET x == CHOOSE y \in S : TRUE
    IN  IF S = {x} THEN x
        ELSE LET m == MaxOf(S \ {x}) IN IF x >= m THEN x ELSE m

\* C10: while only save_model(final=False) was called on a fresh saver whose
\* directory had no 'best' file: best_score never decreases; a lower score
\* changes nothing; any other score leaves exactly one 'best' file, named for
\* the call, and sets best_score and saved_epoch; so there is at most one
\* 'best' file, the one for (saved_epoch, best_score), the highest score
\* submitted.
C10_BestFile ==
    seen.pure =>
        /\ Cardinality(Named(dir, "best")) <= 1
        /\ Named(dir, "best") # {} =>
              /\ Named(dir, "best") =
                    { FileName("best", saver.saved_epoch, saver.best_score) }
              /\ saver.best_score = MaxOf(seen.scores)
        /\ last.op = "save_model" =>
              /\ saver.best_score >= last.pre_saver.best_score
              /\ IF last.score < last.pre_saver.best_score
                 THEN dir = last.pre_dir /\ saver = last.pre_saver
                 ELSE /\ Named(dir, "best") =
                            { FileName("best", last.epoch, last.score) }
                      /\ saver = [best_score |-> last.score,
                                  saved_epoch |-> last.epoch]

\* a lower score was turned away after a higher one had been saved
C10_Witness ==
    /\ seen.pure
    /\ last.op = "save_model"
    /\ last.score < saver.best_score
    /\ Cardinality(Named(dir, "best")) = 1
    /\ Cardinality(seen.scores) >= 2

=============================================================================
